---------------------------- MODULE Spec2Model ----------------------------
(***************************************************************************)
(* Model of script.py: the Indian stock screening strategy                 *)
(* (class IndianStockStrategy and the script that runs it).                *)
(*                                                                         *)
(* Numbers.  Prices and amounts are exact integers counted in one price    *)
(* unit (a tick); the criteria compare linear expressions of prices, so    *)
(* the unit is free.  Where the code halves or takes three quarters, the   *)
(* model compares the cross-multiplied integers.  A missing value of the   *)
(* data frame is NaN; every ordered comparison with NaN is false and the   *)
(* column aggregates skip it, as pandas does.                              *)
(*                                                                         *)
(* Time.  A bar's day is a whole number of calendar days counted from a    *)
(* Monday, so that day \div 7 is the calendar week Monday..Sunday, the bin *)
(* of pandas' resample('W') (weeks ending Sunday, closed on the right).    *)
(* The Volume column is left out: its weekly sum is never missing and no   *)
(* predicate reads it.                                                     *)
(***************************************************************************)
EXTENDS Integers, Sequences, FiniteSets, TLC

VARIABLES
    index,               \* INDEX, the requested index identifier
    yf_constituents,     \* what yf.Ticker(index).constituents gives (environment)
    provider,            \* what yf.Ticker(symbol).info / .history give (environment)
    portfolio_capital,   \* self.portfolio_capital
    max_risk_amount,     \* self.max_risk_amount
    max_position_amount, \* self.max_position_amount
    indian_stocks,       \* self.indian_stocks
    pc,                  \* position of the script
    i,                   \* 1-based position of the loop of screen_all_stocks
    qualified_stocks,    \* the list screen_all_stocks builds and returns
    calls,               \* what the last screen_stock called, in order
    run,                 \* number of screen_all_stocks calls started
    prev_output,         \* what the previous screen_all_stocks call returned
    args,                \* arguments of a directly called method
    ret                  \* what the directly called method returned

vars == <<index, yf_constituents, provider, portfolio_capital, max_risk_amount,
          max_position_amount, indian_stocks, pc, i, qualified_stocks, calls,
          run, prev_output, args, ret>>

-----------------------------------------------------------------------------
(* Bounds of the model *)

\* longest price series handed directly to a criterion
MaxBars == 3
\* how many times screen_all_stocks is called on one strategy object
MaxRuns == 2

-----------------------------------------------------------------------------
(* Missing values and comparisons *)

\* data.last('30D'): the length of the monthly window in days
WindowDays == 30
\* self.max_risk_per_trade = 0.02 and self.max_position_size = 0.10, in percent
max_risk_per_trade == 2
max_position_size == 10

NaN == 0 - 1

IsNaN(x) == x = NaN

\* a <= b, a > b on floats: false as soon as one side is NaN
Leq(a, b) == ~IsNaN(a) /\ ~IsNaN(b) /\ a <= b
Gt(a, b) == ~IsNaN(a) /\ ~IsNaN(b) /\ a > b

\* max and min of two floats as Series.max() / Series.min() fold them: a
\* missing value is skipped
NanMax(a, b) == IF IsNaN(a) THEN b ELSE IF IsNaN(b) THEN a
                ELSE IF a > b THEN a ELSE b
NanMin(a, b) == IF IsNaN(a) THEN b ELSE IF IsNaN(b) THEN a
                ELSE IF a < b THEN a ELSE b

\* Series.max() / Series.min() of column col over the rows lo..hi, folded by
\* halves; NaN when no row has a value
RECURSIVE ColMax(_, _, _, _)
ColMax(data, col, lo, hi) ==
    IF lo > hi THEN NaN
    ELSE IF lo = hi THEN data[lo][col]
    ELSE LET mid == (lo + hi) \div 2
         IN  NanMax(ColMax(data, col, lo, mid), ColMax(data, col, mid + 1, hi))

RECURSIVE ColMin(_, _, _, _)
ColMin(data, col, lo, hi) ==
    IF lo > hi THEN NaN
    ELSE IF lo = hi THEN data[lo][col]
    ELSE LET mid == (lo + hi) \div 2
         IN  NanMin(ColMin(data, col, lo, mid), ColMin(data, col, mid + 1, hi))

\* the 'first' / 'last' aggregates of a resampled column: the first / last
\* value that is not missing, NaN when there is none
RECURSIVE ColFirst(_, _, _)
ColFirst(data, col, k) ==
    IF k > Len(data) THEN NaN
    ELSE IF ~IsNaN(data[k][col]) THEN data[k][col]
    ELSE ColFirst(data, col, k + 1)

RECURSIVE ColLast(_, _, _)
ColLast(data, col, n) ==
    IF n = 0 THEN NaN
    ELSE IF ~IsNaN(data[n][col]) THEN data[n][col]
    ELSE ColLast(data, col, n - 1)

-----------------------------------------------------------------------------
(* Criteria evaluator *)

\* calculate_52_week_range: the midpoint (high + low) / 2 is kept as its
\* numerator high + low over the denominator 2
calculate_52_week_range(data) ==
    LET week_52_high == ColMax(data, "High", 1, Len(data))
        week_52_low == ColMin(data, "Low", 1, Len(data))
    IN  [week_52_high |-> week_52_high,
         week_52_low |-> week_52_low,
         midpoint_x2 |-> IF IsNaN(week_52_high) \/ IsNaN(week_52_low)
                         THEN NaN ELSE week_52_high + week_52_low]

\* week_52_low <= current_price < midpoint: variant with the upper bound strict
check_first_half_strict(current_price, week_52_high, week_52_low) ==
    /\ Leq(week_52_low, current_price)
    /\ ~IsNaN(week_52_high)
    /\ 2 * current_price < week_52_high + week_52_low

check_first_half_criterion(current_price, week_52_high, week_52_low) ==
    LET midpoint_x2 == IF IsNaN(week_52_high) \/ IsNaN(week_52_low)
                       THEN NaN ELSE week_52_high + week_52_low
    IN  /\ Leq(week_52_low, current_price)
        /\ ~IsNaN(midpoint_x2)
        /\ 2 * current_price <= midpoint_x2

\* variant: the window also takes the row dated exactly 30 days back
Last30DClosed(data) ==
    IF Len(data) = 0 THEN data
    ELSE LET start_date == data[Len(data)].day - WindowDays
         IN  SelectSeq(data, LAMBDA b : b.day >= start_date)

\* data.last('30D'): the rows dated after (last date - 30 days); an empty
\* frame stays empty
Last30D(data) ==
    IF Len(data) = 0 THEN data
    ELSE LET start_date == data[Len(data)].day - WindowDays
         IN  SelectSeq(data, LAMBDA b : b.day > start_date)

\* range_75_percent = monthly_low + 0.75 * (monthly_high - monthly_low) is
\* compared times 4
check_monthly_candle_criterion(data, current_price) ==
    \E current_month \in {Last30D(data)} :
        IF Len(current_month) = 0 THEN FALSE
        ELSE \E monthly_high \in
                    {ColMax(current_month, "High", 1, Len(current_month))},
                monthly_low \in
                    {ColMin(current_month, "Low", 1, Len(current_month))} :
                /\ ~IsNaN(monthly_high) /\ ~IsNaN(monthly_low)
                /\ ~IsNaN(current_price)
                /\ 4 * monthly_low + 3 * (monthly_high - monthly_low)
                       <= 4 * current_price
                /\ current_price <= monthly_high

\* the calendar week (Monday..Sunday) of a day
WeekOf(day) == day \div 7

\* one row of data.resample('W').agg({...}): the aggregate of the rows of week w
WeekRow(data, w) ==
    LET rows == SelectSeq(data, LAMBDA b : WeekOf(b.day) = w)
    IN  [Open |-> ColFirst(rows, "Open", 1),
         High |-> ColMax(rows, "High", 1, Len(rows)),
         Low |-> ColMin(rows, "Low", 1, Len(rows)),
         Close |-> ColLast(rows, "Close", Len(rows))]

\* .dropna(): a row with a missing value is dropped
HasNaN(row) ==
    IsNaN(row.Open) \/ IsNaN(row.High) \/ IsNaN(row.Low) \/ IsNaN(row.Close)

\* weekly_data: one row per week from the first to the last week of the data
\* (a week without rows aggregates to NaN), then dropna()
WeeklyData(data) ==
    IF Len(data) = 0 THEN <<>>
    ELSE LET first == WeekOf(data[1].day)
             last == WeekOf(data[Len(data)].day)
             resampled == [k \in 1..(last - first + 1) |->
                              WeekRow(data, first + k - 1)]
         IN  SelectSeq(resampled, LAMBDA row : ~HasNaN(row))

\* variant: green also when the week closes where it opened
check_weekly_candle_flat_green(data) ==
    \E weekly_data \in {WeeklyData(data)} :
        LET n == Len(weekly_data)
        IN  IF n < 2 THEN FALSE
            ELSE \/ weekly_data[n].Close >= weekly_data[n].Open
                 \/ weekly_data[n].High > weekly_data[n - 1].High

check_weekly_candle_criterion(data) ==
    \E weekly_data \in {WeeklyData(data)} :
        LET n == Len(weekly_data)
        IN  IF n < 2 THEN FALSE
            ELSE LET current_week == weekly_data[n]
                     previous_week == weekly_data[n - 1]
                     is_green == Gt(current_week.Close, current_week.Open)
                     higher_high == Gt(current_week.High, previous_week.High)
                 IN  is_green \/ higher_high

-----------------------------------------------------------------------------
(* Position sizer *)

\* int(a / b) for b > 0: Python's int() truncates toward zero
IntDiv(a, b) == IF a >= 0 THEN a \div b ELSE 0 - ((0 - a) \div b)

\* variant: the risk-reward test lets a ratio of exactly 1 through
calculate_position_size_rr1(current_price, stop_loss, target_price) ==
    LET risk_per_share == current_price - stop_loss
        reward_per_share == target_price - current_price
        max_qty_risk == IntDiv(max_risk_amount, risk_per_share)
        max_qty_position == IntDiv(max_position_amount, current_price)
        quantity == IF max_qty_risk < max_qty_position
                    THEN max_qty_risk ELSE max_qty_position
    IN  IF risk_per_share <= 0 THEN <<0, 0, 0>>
        ELSE IF reward_per_share < risk_per_share THEN <<0, 0, 0>>
        ELSE IF quantity <= 0 THEN <<0, 0, 0>>
        ELSE <<quantity, quantity * risk_per_share, quantity * reward_per_share>>

\* variant: the quantity follows the risk limit alone
calculate_position_size_risk_only(current_price, stop_loss, target_price) ==
    LET risk_per_share == current_price - stop_loss
        reward_per_share == target_price - current_price
        quantity == IntDiv(max_risk_amount, risk_per_share)
    IN  IF risk_per_share <= 0 THEN <<0, 0, 0>>
        ELSE IF reward_per_share <= risk_per_share THEN <<0, 0, 0>>
        ELSE IF quantity <= 0 THEN <<0, 0, 0>>
        ELSE <<quantity, quantity * risk_per_share, quantity * reward_per_share>>

\* variant: the risk-reward ratio is not looked at
calculate_position_size_any_ratio(current_price, stop_loss, target_price) ==
    LET risk_per_share == current_price - stop_loss
        reward_per_share == target_price - current_price
        max_qty_risk == IntDiv(max_risk_amount, risk_per_share)
        max_qty_position == IntDiv(max_position_amount, current_price)
        quantity == IF max_qty_risk < max_qty_position
                    THEN max_qty_risk ELSE max_qty_position
    IN  IF risk_per_share <= 0 THEN <<0, 0, 0>>
        ELSE IF quantity <= 0 THEN <<0, 0, 0>>
        ELSE <<quantity, quantity * risk_per_share, quantity * reward_per_share>>

\* risk_reward_ratio = reward_per_share / risk_per_share <= 1, with
\* risk_per_share > 0, is reward_per_share <= risk_per_share
calculate_position_size(current_price, stop_loss, target_price) ==
    LET risk_per_share == current_price - stop_loss
        reward_per_share == target_price - current_price
        max_qty_risk == IntDiv(max_risk_amount, risk_per_share)
        max_qty_position == IntDiv(max_position_amount, current_price)
        quantity == IF max_qty_risk < max_qty_position
                    THEN max_qty_risk ELSE max_qty_position
        actual_risk == quantity * risk_per_share
        potential_profit == quantity * reward_per_share
    IN  IF risk_per_share <= 0 THEN <<0, 0, 0>>
        ELSE IF reward_per_share <= risk_per_share THEN <<0, 0, 0>>
        ELSE IF quantity <= 0 THEN <<0, 0, 0>>
        ELSE <<quantity, actual_risk, potential_profit>>

-----------------------------------------------------------------------------
(* Exceptions: a call either returns a value or raises *)

Ok(v) == [exc |-> FALSE, val |-> v]
Raised == [exc |-> TRUE, val |-> <<>>]

\* Python's None
None == [kind |-> "None"]

-----------------------------------------------------------------------------
(* Universe provider *)

\* fallback_lists["^NSEI"]
NIFTY_50 == <<
    "RELIANCE.NS", "TCS.NS", "INFY.NS", "HDFCBANK.NS", "ICICIBANK.NS",
    "HINDUNILVR.NS", "SBIN.NS", "BHARTIARTL.NS", "ITC.NS", "KOTAKBANK.NS",
    "LT.NS", "ASIANPAINT.NS", "MARUTI.NS", "HCLTECH.NS", "WIPRO.NS",
    "TITAN.NS", "ULTRACEMCO.NS", "ONGC.NS", "TATASTEEL.NS", "ADANIPORTS.NS",
    "POWERGRID.NS", "NESTLEIND.NS", "BAJFINANCE.NS", "BAJAJFINSV.NS", "TECHM.NS",
    "SUNPHARMA.NS", "DRREDDY.NS", "CIPLA.NS", "DIVISLAB.NS", "COALINDIA.NS",
    "NTPC.NS", "JSWSTEEL.NS", "TATAMOTORS.NS", "M&M.NS", "GRASIM.NS",
    "BRITANNIA.NS", "SHREECEM.NS", "EICHERMOT.NS", "UPL.NS", "HINDALCO.NS",
    "BAJAJ-AUTO.NS", "APOLLOHOSP.NS", "HEROMOTOCO.NS", "BPCL.NS", "IOC.NS",
    "INDUSINDBK.NS", "AXISBANK.NS", "VEDL.NS", "ADANITRANS.NS", "TATACONSUM.NS">>

\* fallback_lists["^BSESN"]
SENSEX == <<
    "RELIANCE.NS", "TCS.NS", "INFY.NS", "HDFCBANK.NS", "ICICIBANK.NS",
    "HINDUNILVR.NS", "SBIN.NS", "BHARTIARTL.NS", "ITC.NS", "KOTAKBANK.NS",
    "LT.NS", "ASIANPAINT.NS", "MARUTI.NS", "HCLTECH.NS", "BAJFINANCE.NS",
    "TITAN.NS", "ULTRACEMCO.NS", "ONGC.NS", "TATASTEEL.NS", "POWERGRID.NS",
    "NESTLEIND.NS", "BAJAJFINSV.NS", "TECHM.NS", "SUNPHARMA.NS", "NTPC.NS",
    "JSWSTEEL.NS", "TATAMOTORS.NS", "M&M.NS", "AXISBANK.NS", "INDUSINDBK.NS">>

\* fallback_lists["^CNX100"]
NIFTY_100 == <<
    "RELIANCE.NS", "TCS.NS", "INFY.NS", "HDFCBANK.NS", "ICICIBANK.NS",
    "HINDUNILVR.NS", "SBIN.NS", "BHARTIARTL.NS", "ITC.NS", "KOTAKBANK.NS",
    "LT.NS", "ASIANPAINT.NS", "MARUTI.NS", "HCLTECH.NS", "WIPRO.NS",
    "TITAN.NS", "ULTRACEMCO.NS", "ONGC.NS", "TATASTEEL.NS", "ADANIPORTS.NS",
    "POWERGRID.NS", "NESTLEIND.NS", "BAJFINANCE.NS", "BAJAJFINSV.NS", "TECHM.NS",
    "SUNPHARMA.NS", "DRREDDY.NS", "CIPLA.NS", "DIVISLAB.NS", "COALINDIA.NS",
    "NTPC.NS", "JSWSTEEL.NS", "TATAMOTORS.NS", "M&M.NS", "GRASIM.NS",
    "BRITANNIA.NS", "SHREECEM.NS", "EICHERMOT.NS", "UPL.NS", "HINDALCO.NS",
    "BAJAJ-AUTO.NS", "APOLLOHOSP.NS", "HEROMOTOCO.NS", "BPCL.NS", "IOC.NS",
    "INDUSINDBK.NS", "AXISBANK.NS", "VEDL.NS", "ADANITRANS.NS", "TATACONSUM.NS",
    "ADANIENT.NS", "SIEMENS.NS", "DLF.NS", "GODREJCP.NS", "DABUR.NS",
    "HAVELLS.NS", "TRENT.NS", "BEL.NS", "BANKBARODA.NS", "PNB.NS",
    "CANBK.NS", "UNIONBANK.NS", "INDHOTEL.NS", "CONCOR.NS", "BOSCHLTD.NS",
    "TATAPOWER.NS", "TORNTPHARM.NS", "COLPAL.NS", "MARICO.NS", "PIDILITIND.NS",
    "GLAND.NS", "BERGEPAINT.NS", "LUPIN.NS", "AMBUJACEM.NS", "ACC.NS",
    "ICICIPRULI.NS", "SBILIFE.NS", "HDFCLIFE.NS", "BAJAJHLDNG.NS", "MOTHERSON.NS",
    "VOLTAS.NS", "AUBANK.NS", "BANDHANBNK.NS", "IDFCFIRSTB.NS", "PEL.NS",
    "GODREJPROP.NS", "OBEROIRLTY.NS", "PRESTIGE.NS", "MCDOWELL-N.NS", "ABB.NS",
    "SBICARD.NS", "INDIGO.NS", "PETRONET.NS", "MRF.NS", "PAGEIND.NS",
    "ALKEM.NS", "BIOCON.NS", "DMART.NS", "NAUKRI.NS", "ZOMATO.NS">>

\* fallback_lists["^CRSLDX"]
NIFTY_500 == <<
    "RELIANCE.NS", "TCS.NS", "INFY.NS", "HDFCBANK.NS", "ICICIBANK.NS",
    "HINDUNILVR.NS", "SBIN.NS", "BHARTIARTL.NS", "ITC.NS", "KOTAKBANK.NS",
    "LT.NS", "ASIANPAINT.NS", "MARUTI.NS", "HCLTECH.NS", "WIPRO.NS",
    "TITAN.NS", "ULTRACEMCO.NS", "ONGC.NS", "TATASTEEL.NS", "ADANIPORTS.NS",
    "POWERGRID.NS", "NESTLEIND.NS", "BAJFINANCE.NS", "BAJAJFINSV.NS", "TECHM.NS",
    "SUNPHARMA.NS", "DRREDDY.NS", "CIPLA.NS", "DIVISLAB.NS", "COALINDIA.NS",
    "NTPC.NS", "JSWSTEEL.NS", "TATAMOTORS.NS", "M&M.NS", "GRASIM.NS",
    "BRITANNIA.NS", "SHREECEM.NS", "EICHERMOT.NS", "UPL.NS", "HINDALCO.NS",
    "BAJAJ-AUTO.NS", "APOLLOHOSP.NS", "HEROMOTOCO.NS", "BPCL.NS", "IOC.NS",
    "INDUSINDBK.NS", "AXISBANK.NS", "VEDL.NS", "ADANITRANS.NS", "TATACONSUM.NS",
    "ADANIENT.NS", "SIEMENS.NS", "DLF.NS", "GODREJCP.NS", "DABUR.NS",
    "HAVELLS.NS", "TRENT.NS", "BEL.NS", "BANKBARODA.NS", "PNB.NS",
    "CANBK.NS", "UNIONBANK.NS", "INDHOTEL.NS", "CONCOR.NS", "BOSCHLTD.NS",
    "TATAPOWER.NS", "TORNTPHARM.NS", "COLPAL.NS", "MARICO.NS", "PIDILITIND.NS",
    "GLAND.NS", "BERGEPAINT.NS", "LUPIN.NS", "AMBUJACEM.NS", "ACC.NS",
    "ICICIPRULI.NS", "SBILIFE.NS", "HDFCLIFE.NS", "BAJAJHLDNG.NS", "MOTHERSON.NS",
    "VOLTAS.NS", "AUBANK.NS", "BANDHANBNK.NS", "IDFCFIRSTB.NS", "PEL.NS",
    "GODREJPROP.NS", "OBEROIRLTY.NS", "PRESTIGE.NS", "MCDOWELL-N.NS", "ABB.NS",
    "SBICARD.NS", "INDIGO.NS", "PETRONET.NS", "MRF.NS", "PAGEIND.NS",
    "ALKEM.NS", "BIOCON.NS", "DMART.NS", "NAUKRI.NS", "ZOMATO.NS",
    "PAYTM.NS", "POLICYBZR.NS", "ZEEL.NS", "DIXON.NS", "LTIM.NS",
    "PERSISTENT.NS", "COFORGE.NS", "MPHASIS.NS", "LTTS.NS", "HAPPSTMNDS.NS",
    "CROMPTON.NS", "WHIRLPOOL.NS", "CUMMINSIND.NS", "ESCORTS.NS", "ASHOKLEY.NS",
    "BALKRISIND.NS", "APOLLOTYRE.NS", "CEATLTD.NS", "EXIDEIND.NS", "AMARAJABAT.NS",
    "FORCEMOT.NS", "TVSMOTOR.NS", "BAJAJHIND.NS", "METROPOLIS.NS", "LALPATHLAB.NS",
    "AUROPHARMA.NS", "IPCALAB.NS", "LAURUSLABS.NS", "NATCOPHARM.NS", "PFIZER.NS",
    "ABBOTINDIA.NS", "GLAXO.NS", "SANOFI.NS", "CENTRALBK.NS", "INDIANB.NS",
    "MAHABANK.NS", "CHOLAFIN.NS", "LICHSGFIN.NS", "SHRIRAMFIN.NS", "IIFL.NS",
    "RECLTD.NS", "PFC.NS", "IRCTC.NS", "IEX.NS", "IRFC.NS",
    "RAILTEL.NS", "HAL.NS", "BDL.NS", "COCHINSHIP.NS", "MAZDA.NS",
    "GAIL.NS", "GMRINFRA.NS", "ADANIGREEN.NS", "ADANIPOWER.NS", "TATAELXSI.NS",
    "MFSL.NS", "GNFC.NS", "DEEPAKNTR.NS", "BALRAMCHIN.NS", "TATACHEM.NS",
    "PIIND.NS", "SRF.NS", "ATUL.NS", "CHAMBLFERT.NS", "COROMANDEL.NS",
    "MANAPPURAM.NS", "MUTHOOTFIN.NS", "SJVN.NS", "NHPC.NS", "ZENSARTECH.NS",
    "INFY.NS", "INTELLECT.NS", "SONATSOFTW.NS", "KPITTECH.NS", "CYIENT.NS",
    "RBLBANK.NS", "FEDERALBNK.NS", "IDBI.NS", "CESC.NS", "ADANIENSOL.NS",
    "JSL.NS", "SAIL.NS", "JINDALSTEL.NS", "NMDC.NS", "NATIONALUM.NS",
    "RATNAMANI.NS", "WELCORP.NS", "RELAXO.NS", "BATA.NS", "VBL.NS",
    "TATACOMM.NS", "BHARATFORG.NS", "TIMKEN.NS", "SCHNEIDER.NS", "CROMPTON.NS",
    "KEI.NS", "POLYCAB.NS", "APLAPOLLO.NS", "ASTRAL.NS", "SUPREMEIND.NS",
    "NILKAMAL.NS", "SYMPHONY.NS", "BLUESTARCO.NS", "VGUARD.NS", "FINEORG.NS",
    "EIDPARRY.NS", "RAJESHEXPO.NS", "TITAN.NS", "MANYAVAR.NS", "ABFRL.NS",
    "TRENT.NS", "SHOPERSTOP.NS", "JUBLFOOD.NS", "WESTLIFE.NS", "SAPPHIRE.NS",
    "GOCOLORS.NS", "VMART.NS", "BSOFT.NS", "IRCON.NS", "NBCC.NS",
    "REDINGTON.NS", "AMBER.NS", "ROUTE.NS", "GICRE.NS", "NIACL.NS",
    "STARHEALTH.NS", "MAHLIFE.NS", "ITI.NS", "MTNL.NS", "PVR.NS",
    "PVRINOX.NS", "BASF.NS", "HONAUT.NS", "3MINDIA.NS", "GILLETTE.NS",
    "BAYERCROP.NS", "GRINDWELL.NS", "CARBORUNIV.NS", "SKFINDIA.NS">>

\* fallback_lists["NIFTY_MIDCAP"]
NIFTY_MIDCAP == <<
    "GODREJCP.NS", "DABUR.NS", "HAVELLS.NS", "TRENT.NS", "BEL.NS",
    "BANKBARODA.NS", "PNB.NS", "CANBK.NS", "UNIONBANK.NS", "INDHOTEL.NS",
    "BOSCHLTD.NS", "TATAPOWER.NS", "TORNTPHARM.NS", "COLPAL.NS", "MARICO.NS",
    "PIDILITIND.NS", "GLAND.NS", "BERGEPAINT.NS", "LUPIN.NS", "AMBUJACEM.NS",
    "ACC.NS", "ICICIPRULI.NS", "SBILIFE.NS", "HDFCLIFE.NS", "MOTHERSON.NS",
    "VOLTAS.NS", "AUBANK.NS", "BANDHANBNK.NS", "IDFCFIRSTB.NS", "PEL.NS",
    "GODREJPROP.NS", "OBEROIRLTY.NS", "PRESTIGE.NS", "ABB.NS", "SBICARD.NS",
    "INDIGO.NS", "PETRONET.NS", "MRF.NS", "ALKEM.NS", "BIOCON.NS",
    "DMART.NS", "NAUKRI.NS", "DIXON.NS", "LTIM.NS", "PERSISTENT.NS",
    "COFORGE.NS", "MPHASIS.NS", "LTTS.NS", "CROMPTON.NS", "CUMMINSIND.NS">>

fallback_lists ==
    ("^NSEI" :> NIFTY_50) @@ ("^BSESN" :> SENSEX) @@ ("^CNX100" :> NIFTY_100)
    @@ ("^CRSLDX" :> NIFTY_500) @@ ("NIFTY_MIDCAP" :> NIFTY_MIDCAP)

\* variant: the static list is looked up without the default
get_fallback_stocks_nifty50(idx) == fallback_lists["^NSEI"]

\* fallback_lists.get(index, fallback_lists["^NSEI"])
get_fallback_stocks(idx) ==
    IF idx \in DOMAIN fallback_lists THEN fallback_lists[idx]
    ELSE fallback_lists["^NSEI"]

\* symbol + ".NS" if not symbol.endswith('.NS') else symbol
WithSuffix(symbol) ==
    IF Len(symbol) >= 3 /\ SubSeq(symbol, Len(symbol) - 2, Len(symbol)) = ".NS"
    THEN symbol ELSE symbol \o ".NS"

\* the try block of _get_nifty_symbols: the live list, None when the block
\* falls through, or an exception
LiveConstituents(idx) ==
    CASE yf_constituents.kind = "raises" -> Raised
      [] yf_constituents.kind = "no_attr" -> Ok(None)
      [] yf_constituents.kind = "none" -> Ok(None)
      [] yf_constituents.kind = "list" ->
            IF Len(yf_constituents.symbols) > 0
            THEN Ok([k \in DOMAIN yf_constituents.symbols |->
                        WithSuffix(yf_constituents.symbols[k])])
            ELSE Ok(None)

\* _get_nifty_symbols: except Exception: pass, then the fallback list
get_nifty_symbols(idx) ==
    LET live == LiveConstituents(idx)
    IN  IF ~live.exc /\ live.val # None THEN live
        ELSE Ok(get_fallback_stocks(idx))

-----------------------------------------------------------------------------
(* Market data provider *)

\* the symbol whose answers the snapshot sets apart from the others'
Watched == "INFY.NS"

\* what yfinance answers for a symbol: info and history
Response(symbol) ==
    IF symbol = Watched THEN provider.special ELSE provider.default

\* (market_cap_usd * 83) / 10000000: the provider's figure is counted in
\* units of 10000000, so the result in crores is the figure times 83
UsdToInr == 83

\* the try block of get_market_cap
MarketCapTry(symbol) ==
    LET info == Response(symbol).info
    IN  CASE info.kind = "raises" -> Raised
          [] info.kind = "null" -> Raised
          [] info.kind = "no_key" -> Ok(0 * UsdToInr)
          [] info.kind = "value" -> Ok(info.marketCap * UsdToInr)

\* variant: no except clause
get_market_cap_unguarded(symbol) == MarketCapTry(symbol)

\* get_market_cap: except: return 0
get_market_cap(symbol) ==
    LET r == MarketCapTry(symbol)
    IN  IF r.exc THEN Ok(0) ELSE r

\* get_stock_data: ticker.history(period), except: return None
get_stock_data(symbol) ==
    LET history == Response(symbol).history
    IN  CASE history.kind = "raises" -> Ok(None)
          [] history.kind = "none" -> Ok(None)
          [] history.kind = "frame" -> Ok(history)

-----------------------------------------------------------------------------
(* Screener *)

\* if market_cap < 1000
MinMarketCap == 1000
\* len(data) < 50
MinBars == 50

\* the dict screen_stock returns
ScreeningResult(symbol, market_cap, current_price, range, size, c1, c2, c3) ==
    [symbol |-> symbol,
     current_price |-> current_price,
     entry_price |-> current_price,
     stop_loss |-> range.week_52_low,
     target_price |-> range.week_52_high,
     quantity |-> size[1],
     risk_amount |-> size[2],
     profit_potential |-> size[3],
     risk_reward_ratio |-> IF size[2] > 0 THEN <<size[3], size[2]>> ELSE <<0, 1>>,
     market_cap |-> market_cap,
     week52_high |-> range.week_52_high,
     week52_low |-> range.week_52_low,
     position_value |-> current_price * size[1],
     criterion_1 |-> c1,
     criterion_2 |-> c2,
     criterion_3 |-> c3]

CriteriaCalls ==
    <<"calculate_52_week_range", "check_first_half_criterion",
      "check_monthly_candle_criterion", "check_weekly_candle_criterion">>

\* the outcome of screen_stock once the criteria and the size are known
Outcome(symbol, market_cap, current_price, range, c1, c2, c3, size, called) ==
    IF ~(c1 /\ c2 /\ c3)
    THEN [exc |-> FALSE, val |-> None, calls |-> called \o CriteriaCalls]
    ELSE IF size[1] <= 0
    THEN [exc |-> FALSE, val |-> None,
          calls |-> called \o CriteriaCalls \o <<"calculate_position_size">>]
    ELSE [exc |-> FALSE,
          val |-> ScreeningResult(symbol, market_cap, current_price, range,
                                  size, c1, c2, c3),
          calls |-> called \o CriteriaCalls \o <<"calculate_position_size">>]

\* lines 367-405 of screen_stock: the criteria, the sizing and the result.
\* The 52-week range is bound once, as the code computes it once.
Evaluate(symbol, market_cap, data, called) ==
    CHOOSE outcome \in
        {Outcome(symbol, market_cap, data[Len(data)].Close, range,
                 check_first_half_criterion(
                     data[Len(data)].Close, range.week_52_high,
                     range.week_52_low),
                 check_monthly_candle_criterion(data, data[Len(data)].Close),
                 check_weekly_candle_criterion(data),
                 calculate_position_size(
                     data[Len(data)].Close, range.week_52_low,
                     range.week_52_high),
                 called) :
            range \in {calculate_52_week_range(data)}} : TRUE

\* variant: the price series is fetched before the market cap is looked at
screen_stock_fetch_first(symbol) ==
    LET market_cap == get_market_cap(symbol)
        fetched == get_stock_data(symbol)
        called == <<"get_market_cap", "get_stock_data">>
    IN  IF market_cap.exc \/ fetched.exc
        THEN [exc |-> TRUE, val |-> None, calls |-> called]
        ELSE IF market_cap.val < MinMarketCap
        THEN [exc |-> FALSE, val |-> None, calls |-> called]
        ELSE IF fetched.val = None \/ Len(fetched.val.rows) < MinBars
        THEN [exc |-> FALSE, val |-> None, calls |-> called]
        ELSE Evaluate(symbol, market_cap.val, fetched.val.rows, called)

\* variant: a result is returned whatever the quantity
screen_stock_any_quantity(symbol) ==
    LET market_cap == get_market_cap(symbol)
        fetched == get_stock_data(symbol)
        called == <<"get_market_cap", "get_stock_data">>
    IN  IF market_cap.exc \/ market_cap.val < MinMarketCap
        THEN [exc |-> market_cap.exc, val |-> None,
              calls |-> <<"get_market_cap">>]
        ELSE IF fetched.val = None \/ Len(fetched.val.rows) < MinBars
        THEN [exc |-> FALSE, val |-> None, calls |-> called]
        ELSE LET data == fetched.val.rows
                 current_price == data[Len(data)].Close
                 range == calculate_52_week_range(data)
                 c1 == check_first_half_criterion(
                           current_price, range.week_52_high, range.week_52_low)
                 c2 == check_monthly_candle_criterion(data, current_price)
                 c3 == check_weekly_candle_criterion(data)
                 size == calculate_position_size(
                             current_price, range.week_52_low,
                             range.week_52_high)
             IN  IF ~(c1 /\ c2 /\ c3)
                 THEN [exc |-> FALSE, val |-> None,
                       calls |-> called \o CriteriaCalls]
                 ELSE [exc |-> FALSE,
                       val |-> ScreeningResult(symbol, market_cap.val,
                                               current_price, range, size,
                                               c1, c2, c3),
                       calls |-> called \o CriteriaCalls
                                 \o <<"calculate_position_size">>]

\* screen_stock: the value returned (None or the dict), whether an exception
\* left it, and the calls it made in order
screen_stock(symbol) ==
    LET market_cap == get_market_cap(symbol)
    IN  IF market_cap.exc
        THEN [exc |-> TRUE, val |-> None, calls |-> <<"get_market_cap">>]
        ELSE IF market_cap.val < MinMarketCap
        THEN [exc |-> FALSE, val |-> None, calls |-> <<"get_market_cap">>]
        ELSE LET fetched == get_stock_data(symbol)
                 called == <<"get_market_cap", "get_stock_data">>
             IN  IF fetched.exc
                 THEN [exc |-> TRUE, val |-> None, calls |-> called]
                 ELSE IF fetched.val = None \/ Len(fetched.val.rows) < MinBars
                 THEN [exc |-> FALSE, val |-> None, calls |-> called]
                 ELSE Evaluate(symbol, market_cap.val, fetched.val.rows,
                               called)

-----------------------------------------------------------------------------
(* The strategy object *)

\* __init__: the two capital limits.  Capitals are multiples of 100, so that
\* 2% and 10% of them are whole amounts.
MaxRiskAmount(capital) == (capital * max_risk_per_trade) \div 100
MaxPositionAmount(capital) == (capital * max_position_size) \div 100

Capitals == {0 - 10000, 0, 100, 10000}

\* the variables a directly called method does not touch
NoScreening ==
    /\ index = "^NSEI"
    /\ yf_constituents = [kind |-> "no_attr", symbols |-> <<>>]
    /\ provider = [default |-> <<>>, special |-> <<>>]
    /\ indian_stocks = <<>>
    /\ i = 0
    /\ qualified_stocks = <<>>
    /\ calls = <<>>
    /\ run = 0
    /\ prev_output = <<>>

Constructed(capital) ==
    /\ portfolio_capital = capital
    /\ max_risk_amount = MaxRiskAmount(capital)
    /\ max_position_amount = MaxPositionAmount(capital)

Return(value) ==
    /\ pc = "call"
    /\ pc' = "returned"
    /\ ret' = value
    /\ UNCHANGED <<index, yf_constituents, provider, portfolio_capital,
                   max_risk_amount, max_position_amount, indian_stocks, i,
                   qualified_stocks, calls, run, prev_output, args>>

\* the price series of n rows on the given days with the given contents
MkSeries(days, rows) ==
    [k \in DOMAIN days |->
        [day |-> days[k], Open |-> rows[k].Open, High |-> rows[k].High,
         Low |-> rows[k].Low, Close |-> rows[k].Close]]

\* the chronological series of at most MaxBars rows, dated in Days, with
\* contents in Rows
SeriesOver(Days, Rows) ==
    UNION {{MkSeries(d, r) :
               d \in {x \in [1..n -> Days] :
                         \A k \in 1..(n - 1) : x[k] < x[k + 1]},
               r \in [1..n -> Rows]} : n \in 0..MaxBars}

-----------------------------------------------------------------------------
(* What the market data provider may answer *)

\* a price series of n rows on the days 1..n.  The first row, more than 30
\* days before the last, sets the 52-week range (low 100, high first_high);
\* the later rows trade between 116 and 120, except for one high of
\* recent_high five days before the last row; the rows of the last week open
\* at last_week_open, and the last row closes at 120.
Series(n, first_high, recent_high, last_week_open) ==
    [k \in 1..n |->
        [day |-> k,
         Open |-> IF k = 1 THEN 150
                  ELSE IF WeekOf(k) = WeekOf(n) THEN last_week_open ELSE 117,
         High |-> IF k = 1 THEN first_high
                  ELSE IF k = n - 5 THEN recent_high ELSE 120,
         Low |-> IF k = 1 THEN 100 ELSE 116,
         Close |-> IF k = 1 THEN 150 ELSE IF k = n THEN 120 ELSE 118]]

Frame(rows) == [kind |-> "frame", rows |-> rows]

\* ticker.info raises, has no marketCap key, has marketCap None, or has a
\* figure (in units of 10000000: 12 is below 1000 crores, 13 above)
Infos ==
    {[kind |-> k, marketCap |-> 0] : k \in {"raises", "no_key", "null"}}
    \cup {[kind |-> "value", marketCap |-> m] : m \in {0, 12, 13}}

\* ticker.history raises, returns None, an empty frame, or a frame of one row
\* too few or of just enough rows
Histories ==
    {[kind |-> k, rows |-> <<>>] : k \in {"raises", "none", "frame"}}
    \cup {Frame(Series(n, fh, rh, lwo)) :
             n \in {MinBars - 1, MinBars}, fh \in {130, 140, 200},
             rh \in {120, 140}, lwo \in {117, 120}}

Responses == [info : Infos, history : Histories]

HasCap == [kind |-> "value", marketCap |-> 13]
GoodFrame == Frame(Series(MinBars, 200, 120, 117))

\* a symbol that passes every filter
Qualifying == [info |-> HasCap, history |-> GoodFrame]

\* the answers tried for the watched symbol in a whole run: one per way of
\* being accepted or rejected
WatchedResponses ==
    {r \in Responses :
        \/ r.history = GoodFrame
        \/ /\ r.info = HasCap
           /\ r.history \in
                {[kind |-> "raises", rows |-> <<>>],
                 [kind |-> "none", rows |-> <<>>],
                 [kind |-> "frame", rows |-> <<>>],
                 Frame(Series(MinBars - 1, 200, 120, 117)),
                 Frame(Series(MinBars, 130, 120, 117)),
                 Frame(Series(MinBars, 140, 120, 117)),
                 Frame(Series(MinBars, 200, 140, 117)),
                 Frame(Series(MinBars, 200, 120, 120))}}

-----------------------------------------------------------------------------
(* screen_stock called directly *)

InitScreenStock ==
    /\ index = "^NSEI"
    /\ yf_constituents = [kind |-> "no_attr", symbols |-> <<>>]
    /\ provider \in [default : {Qualifying}, special : Responses]
    /\ \E capital \in {100, 10000} : Constructed(capital)
    /\ indian_stocks = <<Watched>>
    /\ i = 0
    /\ qualified_stocks = <<>>
    /\ calls = <<>>
    /\ run = 0
    /\ prev_output = <<>>
    /\ args = [symbol |-> Watched]
    /\ pc = "call"
    /\ ret = <<>>

CallScreenStock == Return(screen_stock(args.symbol))

SpecScreenStock == InitScreenStock /\ [][CallScreenStock]_vars

-----------------------------------------------------------------------------
(* The script: construct the strategy, then screen_all_stocks *)

\* PORTFOLIO_CAPITAL = 10000
PORTFOLIO_CAPITAL == 10000

SupportedIndices == {"^NSEI", "^CRSLDX", "^BSESN", "^CNX100", "NIFTY_MIDCAP"}

\* the index identifiers tried: the five supported and one that is not
Indices == SupportedIndices \cup {"^NSEBANK"}

\* yf.Ticker(index).constituents: the access raises, the attribute does not
\* exist, it is None, it is empty, or it lists symbols
LiveOutcomes ==
    {[kind |-> k, symbols |-> <<>>] : k \in {"raises", "no_attr", "none", "list"}}
    \cup {[kind |-> "list", symbols |-> <<"TCS", "INFY.NS", "SBIN">>]}

Init ==
    /\ index \in Indices
    /\ yf_constituents \in LiveOutcomes
    /\ provider \in [default : {Qualifying}, special : WatchedResponses]
    /\ portfolio_capital = 0
    /\ max_risk_amount = 0
    /\ max_position_amount = 0
    /\ indian_stocks = <<>>
    /\ pc = "start"
    /\ i = 0
    /\ qualified_stocks = <<>>
    /\ calls = <<>>
    /\ run = 0
    /\ prev_output = <<>>
    /\ args = <<>>
    /\ ret = <<>>

\* IndianStockStrategy(portfolio_capital=PORTFOLIO_CAPITAL, index=INDEX)
Construct ==
    /\ pc = "start"
    /\ portfolio_capital' = PORTFOLIO_CAPITAL
    /\ max_risk_amount' = MaxRiskAmount(PORTFOLIO_CAPITAL)
    /\ max_position_amount' = MaxPositionAmount(PORTFOLIO_CAPITAL)
    /\ LET symbols == get_nifty_symbols(index)
       IN  IF symbols.exc
           THEN pc' = "failed" /\ UNCHANGED indian_stocks
           ELSE pc' = "ready" /\ indian_stocks' = symbols.val
    /\ UNCHANGED <<index, yf_constituents, provider, i, qualified_stocks,
                   calls, run, prev_output, args, ret>>

\* variant: the list of results outlives the call
ScreenAllStocksBeginKeep ==
    /\ pc \in {"ready", "done"}
    /\ run < MaxRuns
    /\ run' = run + 1
    /\ prev_output' = qualified_stocks
    /\ qualified_stocks' = qualified_stocks
    /\ i' = 1
    /\ pc' = IF Len(indian_stocks) = 0 THEN "done" ELSE "screening"
    /\ UNCHANGED <<index, yf_constituents, provider, portfolio_capital,
                   max_risk_amount, max_position_amount, indian_stocks, calls,
                   args, ret>>

\* screen_all_stocks is called: qualified_stocks = [] and the loop starts.
\* What the call before it returned is kept aside in prev_output.
ScreenAllStocksBegin ==
    /\ pc \in {"ready", "done"}
    /\ run < MaxRuns
    /\ run' = run + 1
    /\ prev_output' = qualified_stocks
    /\ qualified_stocks' = <<>>
    /\ i' = 1
    /\ pc' = IF Len(indian_stocks) = 0 THEN "done" ELSE "screening"
    /\ UNCHANGED <<index, yf_constituents, provider, portfolio_capital,
                   max_risk_amount, max_position_amount, indian_stocks, calls,
                   args, ret>>

\* one turn of the loop of screen_all_stocks; after the last symbol the list
\* is returned.  An exception leaving screen_stock ends the script.
ScreenAllStocksStep ==
    /\ pc = "screening"
    /\ i <= Len(indian_stocks)
    /\ \E result \in {screen_stock(indian_stocks[i])} :
           /\ calls' = result.calls
           /\ IF result.exc
              THEN pc' = "aborted" /\ UNCHANGED <<i, qualified_stocks>>
              ELSE /\ qualified_stocks' =
                         IF result.val # None
                         THEN Append(qualified_stocks, result.val)
                         ELSE qualified_stocks
                   /\ i' = i + 1
                   /\ pc' = IF i = Len(indian_stocks) THEN "done"
                            ELSE "screening"
    /\ UNCHANGED <<index, yf_constituents, provider, portfolio_capital,
                   max_risk_amount, max_position_amount, indian_stocks, run,
                   prev_output, args, ret>>

Next == Construct \/ ScreenAllStocksBegin \/ ScreenAllStocksStep

Spec == Init /\ [][Next]_vars

-----------------------------------------------------------------------------
(* Properties of screen_stock *)

\* the market cap of the watched symbol in crores, as the provider has it
\* (0 when it has no figure)
CapOf(info) == IF info.kind = "value" THEN info.marketCap * 83 ELSE 0

\* what the criteria and the sizer say of a price series taken by itself
AllCriteria(rows) ==
    /\ Len(rows) > 0
    /\ LET price == rows[Len(rows)].Close
           range == calculate_52_week_range(rows)
       IN  /\ check_first_half_criterion(price, range.week_52_high,
                                         range.week_52_low)
           /\ check_monthly_candle_criterion(rows, price)
           /\ check_weekly_candle_criterion(rows)

SizedQuantity(rows) ==
    LET range == calculate_52_week_range(rows)
    IN  calculate_position_size(rows[Len(rows)].Close, range.week_52_low,
                                range.week_52_high)[1]

\* C1 as stated: screen_stock produces a ScreeningResult iff all three
\* criteria are true and the quantity computed by the position sizer is > 0.
C1_AsStated ==
    pc = "returned" =>
        LET history == provider.special.history
        IN  (ret.val # None) <=>
                /\ history.kind = "frame"
                /\ AllCriteria(history.rows)
                /\ SizedQuantity(history.rows) > 0

\* C1 as amended: screen_stock produces a ScreeningResult iff the market cap
\* is at least 1000, the price series has at least 50 rows, all three
\* criteria are true and the quantity computed by the position sizer is > 0;
\* the result then carries the three criteria as true and that quantity.
C1_ResultIff ==
    pc = "returned" =>
        LET history == provider.special.history
        IN  /\ (ret.val # None) <=>
                  /\ CapOf(provider.special.info) >= 1000
                  /\ history.kind = "frame"
                  /\ Len(history.rows) >= 50
                  /\ AllCriteria(history.rows)
                  /\ SizedQuantity(history.rows) > 0
            /\ (ret.val # None) =>
                  /\ ret.val.criterion_1 /\ ret.val.criterion_2
                  /\ ret.val.criterion_3
                  /\ ret.val.quantity = SizedQuantity(history.rows)
                  /\ ret.val.quantity > 0

\* a result was produced for the watched symbol
C1_Witness ==
    /\ pc = "returned"
    /\ ret.val # None
    /\ ret.val.symbol = Watched
    /\ ret.val.quantity = 8

\* C3: a symbol whose market cap is below 1000 or whose price series has
\* fewer than 50 rows is rejected whatever the criteria and the sizer would
\* yield; after the market-cap guard fails the price series is not fetched,
\* and after either guard fails no criterion is evaluated and no position is
\* sized.
C3_GuardsRejectAtOnce ==
    pc = "returned" =>
        LET cap == CapOf(provider.special.info)
            history == provider.special.history
        IN  /\ cap < 1000 =>
                  ret.val = None /\ ret.calls = <<"get_market_cap">>
            /\ (cap >= 1000 /\ history.kind = "frame"
                  /\ Len(history.rows) < 50) =>
                  /\ ret.val = None
                  /\ ret.calls = <<"get_market_cap", "get_stock_data">>

\* a series of 49 rows that meets every criterion and sizes to a positive
\* quantity was rejected, and so was a small cap with a qualifying series
C3_Witness ==
    /\ pc = "returned"
    /\ ret.val = None
    /\ provider.special.history.kind = "frame"
    /\ AllCriteria(provider.special.history.rows)
    /\ SizedQuantity(provider.special.history.rows) > 0
    /\ \/ /\ CapOf(provider.special.info) >= 1000
          /\ Len(provider.special.history.rows) = 49
       \/ /\ CapOf(provider.special.info) = 996
          /\ Len(provider.special.history.rows) = 50

-----------------------------------------------------------------------------
(* Properties of a whole run *)

\* fetching the price series or computing the market cap fails for a symbol:
\* the provider raises, returns nothing, or has no market-cap figure
FetchFails(symbol) ==
    LET r == Response(symbol)
    IN  \/ r.info.kind \in {"raises", "no_key", "null"}
        \/ r.history.kind \in {"raises", "none"}
        \/ r.history.kind = "frame" /\ Len(r.history.rows) = 0

\* C4: when fetching the price series or computing the market cap fails for
\* a symbol, that symbol alone is skipped: screen_all_stocks does not abort,
\* the results collected so far are unchanged, the loop goes on to the next
\* symbol, and the run ends only after the last symbol of the universe.
C4_FailureSkipsSymbol ==
    /\ [][(pc = "screening" /\ FetchFails(indian_stocks[i])) =>
            /\ qualified_stocks' = qualified_stocks
            /\ i' = i + 1
            /\ pc' = IF i = Len(indian_stocks) THEN "done" ELSE "screening"]_vars
    /\ [](pc # "aborted")
    /\ [](pc = "done" => i = Len(indian_stocks) + 1)

\* a run over the NIFTY 50 list ended in which the watched symbol's fetch
\* failed and every symbol before and after it was accepted
C4_Witness ==
    /\ pc = "done"
    /\ index = "^NSEI"
    /\ indian_stocks = NIFTY_50
    /\ FetchFails(Watched)
    /\ Len(qualified_stocks) = Len(indian_stocks) - 1
    /\ qualified_stocks[1].symbol = "RELIANCE.NS"
    /\ qualified_stocks[Len(qualified_stocks)].symbol = "TATACONSUM.NS"

\* C8: running the screener again on the unchanged snapshot returns the same
\* records with the same field values in the same order.
C8_SameOutputAgain ==
    (pc = "done" /\ run >= 2) => qualified_stocks = prev_output

\* a second run ended with several records
C8_Witness ==
    /\ pc = "done"
    /\ run = 2
    /\ Len(qualified_stocks) >= 2
    /\ qualified_stocks = prev_output

\* C9: over the static universe of each of the five supported indices, no
\* symbol appears in more than one ScreeningResult of a run.
C9_OneRecordPerSymbol ==
    (index \in SupportedIndices /\ indian_stocks = fallback_lists[index]) =>
        \A a, b \in DOMAIN qualified_stocks :
            a # b => qualified_stocks[a].symbol # qualified_stocks[b].symbol

\* the live constituent lookup fails, raises or yields no constituents
LookupFails ==
    \/ yf_constituents.kind \in {"raises", "no_attr", "none"}
    \/ yf_constituents.kind = "list" /\ Len(yf_constituents.symbols) = 0

\* C10: when the live constituent lookup fails, raises or yields no
\* constituents, construction does not fail and the universe is the static
\* list keyed by the requested index, for each of the five supported
\* identifiers; for any other identifier it is the NIFTY 50 (^NSEI) list.
C10_FallbackUniverse ==
    (pc # "start" /\ LookupFails) =>
        /\ pc # "failed"
        /\ index = "^NSEI" => indian_stocks = NIFTY_50
        /\ index = "^CRSLDX" => indian_stocks = NIFTY_500
        /\ index = "^BSESN" => indian_stocks = SENSEX
        /\ index = "^CNX100" => indian_stocks = NIFTY_100
        /\ index = "NIFTY_MIDCAP" => indian_stocks = NIFTY_MIDCAP
        /\ index \notin SupportedIndices => indian_stocks = NIFTY_50

\* the lookup raised for an identifier that is not supported, and the
\* strategy was constructed over the NIFTY 50 list
C10_Witness ==
    /\ pc = "ready"
    /\ index \notin SupportedIndices
    /\ yf_constituents.kind = "raises"
    /\ indian_stocks = NIFTY_50

-----------------------------------------------------------------------------
(* calculate_position_size called directly *)

SizerPrices == {0, 90, 93, 100, 110, 130, 1500}

InitSizer ==
    /\ NoScreening
    /\ \E capital \in Capitals : Constructed(capital)
    /\ args \in [current_price : SizerPrices, stop_loss : SizerPrices,
                  target_price : SizerPrices]
    /\ pc = "call"
    /\ ret = <<>>

CallSizer ==
    Return(calculate_position_size(args.current_price, args.stop_loss,
                                   args.target_price))

SpecSizer == InitSizer /\ [][CallSizer]_vars

Min(a, b) == IF a < b THEN a ELSE b

\* C2: calculate_position_size returns (0,0,0) when entry - stop <= 0, when
\* (target - entry)/(entry - stop) <= 1, or when q = min(floor(max_risk_amount
\* / (entry - stop)), floor(max_position_amount / entry)) <= 0; otherwise it
\* returns (q, q*(entry - stop), q*(target - entry)).  entry=100, stop=90,
\* target=130 with limits 200 and 1000 gives (10, 100, 300), and a quantity
\* of 0 never comes with a non-zero risk or profit.
C2_PositionSize ==
    pc = "returned" =>
        LET entry == args.current_price
            stop == args.stop_loss
            target == args.target_price
            q == Min(max_risk_amount \div (entry - stop),
                     max_position_amount \div entry)
        IN  /\ ret = IF entry - stop <= 0 THEN <<0, 0, 0>>
                     ELSE IF target - entry <= entry - stop THEN <<0, 0, 0>>
                     ELSE IF q <= 0 THEN <<0, 0, 0>>
                     ELSE <<q, q * (entry - stop), q * (target - entry)>>
            /\ (/\ entry = 100 /\ stop = 90 /\ target = 130
                /\ max_risk_amount = 200 /\ max_position_amount = 1000)
                   => ret = <<10, 100, 300>>
            /\ ret[1] = 0 => (ret[2] = 0 /\ ret[3] = 0)

\* the worked example of the sizer has been computed
C2_Witness ==
    /\ pc = "returned"
    /\ args = [current_price |-> 100, stop_loss |-> 90, target_price |-> 130]
    /\ max_risk_amount = 200 /\ max_position_amount = 1000
    /\ ret = <<10, 100, 300>>

-----------------------------------------------------------------------------
(* check_weekly_candle_criterion called directly *)

\* days 6 (a Sunday), 7 and 8 (the Monday and Tuesday after it), 14, 21
\* (the next two Mondays)
WeeklyDays == {6, 7, 8, 14, 21}

\* a green, a red and a flat day under two highs, a day whose Open is
\* missing, and a day with no value at all
WeeklyRows ==
    {[Open |-> o, High |-> h, Low |-> 90, Close |-> c] :
        o \in {100, 105}, c \in {100, 105}, h \in {200, 210}}
    \cup {[Open |-> NaN, High |-> 200, Low |-> 90, Close |-> 105],
          [Open |-> NaN, High |-> NaN, Low |-> NaN, Close |-> NaN]}

InitWeekly ==
    /\ NoScreening
    /\ Constructed(10000)
    /\ args \in [data : SeriesOver(WeeklyDays, WeeklyRows)]
    /\ pc = "call"
    /\ ret = <<>>

CallWeekly == Return(check_weekly_candle_criterion(args.data))

SpecWeekly == InitWeekly /\ [][CallWeekly]_vars

\* the rows of the series that fall in week w and have a value in column col
RowsWith(data, w, col) ==
    {k \in DOMAIN data : WeekOf(data[k].day) = w /\ data[k][col] # NaN}

\* the weeks of the series with a value in each of the four columns
CompleteWeeks(data) ==
    {w \in {WeekOf(data[k].day) : k \in DOMAIN data} :
        \A col \in {"Open", "High", "Low", "Close"} :
            RowsWith(data, w, col) # {}}

SetMax(S) == CHOOSE x \in S : \A y \in S : y <= x
SetMin(S) == CHOOSE x \in S : \A y \in S : x <= y

WeekOpen(data, w) == data[SetMin(RowsWith(data, w, "Open"))].Open
WeekClose(data, w) == data[SetMax(RowsWith(data, w, "Close"))].Close
WeekHigh(data, w) ==
    SetMax({data[k].High : k \in RowsWith(data, w, "High")})

\* C5: the weekly-momentum predicate is false with fewer than 2 complete
\* weekly bars (open = first, high = max, close = last of the week); with at
\* least 2 it holds iff the latest weekly bar is green (close > open) or its
\* high is strictly above the previous weekly bar's high.
C5_WeeklyMomentum ==
    pc = "returned" =>
        LET weeks == CompleteWeeks(args.data)
            cur == SetMax(weeks)
            prev == SetMax(weeks \ {cur})
        IN  IF Cardinality(weeks) < 2 THEN ret = FALSE
            ELSE ret = (\/ WeekClose(args.data, cur) > WeekOpen(args.data, cur)
                        \/ WeekHigh(args.data, cur) > WeekHigh(args.data, prev))

\* a red latest week whose high is above the previous week's high gave true
C5_Witness ==
    /\ pc = "returned"
    /\ ret = TRUE
    /\ LET weeks == CompleteWeeks(args.data)
           cur == SetMax(weeks)
           prev == SetMax(weeks \ {cur})
       IN  /\ Cardinality(weeks) >= 2
           /\ WeekClose(args.data, cur) < WeekOpen(args.data, cur)
           /\ WeekHigh(args.data, cur) > WeekHigh(args.data, prev)

-----------------------------------------------------------------------------
(* check_monthly_candle_criterion called directly; prices in thousandths *)

\* with the last row on day 32, day 2 lies exactly 30 days back; with the
\* last row on day 31, day 1 does
MonthlyDays == {1, 2, 31, 32}

MonthlyRows ==
    {[Open |-> 150000, High |-> 200000, Low |-> 100000, Close |-> 150000],
     [Open |-> 150000, High |-> 300000, Low |-> 50000, Close |-> 150000]}

MonthlyPrices == {99000, 174999, 175000, 200000, 200001, 237500, 300000}

InitMonthly ==
    /\ NoScreening
    /\ Constructed(10000)
    /\ args \in [data : SeriesOver(MonthlyDays, MonthlyRows),
                 current_price : MonthlyPrices]
    /\ pc = "call"
    /\ ret = <<>>

CallMonthly ==
    Return(check_monthly_candle_criterion(args.data, args.current_price))

SpecMonthly == InitMonthly /\ [][CallMonthly]_vars

\* the rows dated within the 30 calendar days that end on the last row's day
Trailing30(data) ==
    {k \in DOMAIN data : data[k].day >= data[Len(data)].day - 29}

\* C6: the monthly-candle predicate takes monthly_high = max High and
\* monthly_low = min Low over exactly the rows dated within the trailing 30
\* calendar days of the series and holds iff monthly_low + 0.75 *
\* (monthly_high - monthly_low) <= current_price <= monthly_high; it is
\* false when the window has no row.  For low = 100, high = 200: 175 and 200
\* give true, any price below 175 gives false.
C6_MonthlyCandle ==
    pc = "returned" =>
        IF Len(args.data) = 0 THEN ret = FALSE
        ELSE LET window == Trailing30(args.data)
                 monthly_high == SetMax({args.data[k].High : k \in window})
                 monthly_low == SetMin({args.data[k].Low : k \in window})
                 price == args.current_price
             IN  /\ ret = (/\ 4 * monthly_low + 3 * (monthly_high - monthly_low)
                                 <= 4 * price
                           /\ price <= monthly_high)
                 /\ (monthly_low = 100000 /\ monthly_high = 200000) =>
                        /\ price \in {175000, 200000} => ret = TRUE
                        /\ price < 175000 => ret = FALSE

\* the price sits on the 75% boundary of the window's range while a row
\* dated exactly 30 days before the last one has a wider range
C6_Witness ==
    /\ pc = "returned"
    /\ ret = TRUE
    /\ args.current_price = 175000
    /\ Len(args.data) >= 2
    /\ args.data[1].day = args.data[Len(args.data)].day - 30
    /\ args.data[1].High = 300000
    /\ \A k \in Trailing30(args.data) : args.data[k].High = 200000

-----------------------------------------------------------------------------
(* calculate_52_week_range and check_first_half_criterion called directly *)

FirstHalfDays == 1..(MaxBars + 1)

FirstHalfRows ==
    {[Open |-> 120, High |-> 200, Low |-> 100, Close |-> 120],
     [Open |-> 120, High |-> 131, Low |-> 100, Close |-> 120],
     [Open |-> 120, High |-> 150, Low |-> 120, Close |-> 120],
     [Open |-> 120, High |-> 130, Low |-> 99, Close |-> 120],
     [Open |-> NaN, High |-> NaN, Low |-> NaN, Close |-> NaN]}

FirstHalfPrices == {98, 99, 100, 115, 116, 120, 135, 150, 151}

InitFirstHalf ==
    /\ NoScreening
    /\ Constructed(10000)
    /\ args \in [data : SeriesOver(FirstHalfDays, FirstHalfRows),
                 current_price : FirstHalfPrices]
    /\ pc = "call"
    /\ ret = <<>>

CallFirstHalf ==
    LET range == calculate_52_week_range(args.data)
    IN  Return([week_52_high |-> range.week_52_high,
                week_52_low |-> range.week_52_low,
                midpoint_x2 |-> range.midpoint_x2,
                criterion_1 |-> check_first_half_criterion(
                                    args.current_price, range.week_52_high,
                                    range.week_52_low)])

SpecFirstHalf == InitFirstHalf /\ [][CallFirstHalf]_vars

\* the values of a column that are not missing
Values(data, col) == {data[k][col] : k \in DOMAIN data} \ {NaN}

\* C7: high52 is the maximum High and low52 the minimum Low of the series,
\* midpoint = (high52 + low52) / 2, and the first-half predicate holds iff
\* low52 <= current_price <= midpoint, both bounds inclusive: true at low52
\* and at the midpoint, false above the midpoint and below low52.
C7_FirstHalf ==
    (pc = "returned" /\ Values(args.data, "High") # {}) =>
        LET high52 == SetMax(Values(args.data, "High"))
            low52 == SetMin(Values(args.data, "Low"))
            price == args.current_price
        IN  /\ ret.week_52_high = high52
            /\ ret.week_52_low = low52
            /\ ret.midpoint_x2 = high52 + low52
            /\ ret.criterion_1 = (low52 <= price /\ 2 * price <= high52 + low52)
            /\ price = low52 => ret.criterion_1
            /\ 2 * price = high52 + low52 => ret.criterion_1
            /\ 2 * price > high52 + low52 => ~ret.criterion_1
            /\ price < low52 => ~ret.criterion_1

\* the price is exactly the midpoint of a range of several rows, and the
\* predicate is true
C7_Witness ==
    /\ pc = "returned"
    /\ Len(args.data) >= 2
    /\ ret.week_52_high = 200 /\ ret.week_52_low = 100
    /\ args.current_price = 150
    /\ ret.criterion_1 = TRUE

-----------------------------------------------------------------------------
(* A run of screen_all_stocks over a short live universe, under several
   capitals *)

\* the first row of the series, which sets the 52-week range, with another Low
WithFirstLow(rows, low) == [rows EXCEPT ![1].Low = low]

\* a price series of n rows on the days 1..n whose last close, 120, is the
\* lowest Low of the series: after the first row every row trades at 120;
\* the rows of the last week open at last_week_open
AtLowSeries(n, last_week_open) ==
    [k \in 1..n |->
        [day |-> k,
         Open |-> IF k = 1 THEN 150
                  ELSE IF WeekOf(k) = WeekOf(n) THEN last_week_open ELSE 120,
         High |-> IF k = 1 THEN 200 ELSE 120,
         Low |-> 120,
         Close |-> IF k = 1 THEN 150 ELSE 120]]

\* price series that last closed at 120: in a range of 100..200 (the position
\* limit binds), of 60..200 (the risk limit binds), of 100..140 and of
\* 40..200 (the close is the midpoint), of 100..130 (the close is above the
\* midpoint), and of 120..200 (the close is the low), once with a flat and
\* once with a green last week
SizingHistories ==
    {Frame(Series(MinBars, 200, 120, 117)),
     Frame(WithFirstLow(Series(MinBars, 200, 120, 117), 60)),
     Frame(Series(MinBars, 140, 120, 117)),
     Frame(WithFirstLow(Series(MinBars, 200, 120, 117), 40)),
     Frame(Series(MinBars, 130, 120, 117)),
     Frame(AtLowSeries(MinBars, 120)),
     Frame(AtLowSeries(MinBars, 119))}

SizingResponses == [info : {HasCap}, history : SizingHistories]

\* IndianStockStrategy(portfolio_capital=...): the capitals tried
RunCapitals == Capitals \cup {100000}

\* the strategy has been constructed over the constituents the live lookup
\* listed
InitSizedRun ==
    /\ index = "^NSEI"
    /\ yf_constituents = [kind |-> "list",
                          symbols |-> <<"TCS", "INFY.NS", "SBIN">>]
    /\ provider \in [default : SizingResponses, special : SizingResponses]
    /\ \E capital \in RunCapitals : Constructed(capital)
    /\ indian_stocks = get_nifty_symbols(index).val
    /\ pc = "ready"
    /\ i = 0
    /\ qualified_stocks = <<>>
    /\ calls = <<>>
    /\ run = 0
    /\ prev_output = <<>>
    /\ args = <<>>
    /\ ret = <<>>

NextSizedRun == ScreenAllStocksBegin \/ ScreenAllStocksStep

SpecSizedRun == InitSizedRun /\ [][NextSizedRun]_vars

\* C11: every ScreeningResult of a run has a whole quantity > 0,
\* risk_amount = quantity * (entry_price - stop_loss) <= max_risk_amount and
\* position_value = quantity * entry_price <= max_position_amount, where the
\* two limits are 2% and 10% of portfolio_capital; and no step of the
\* screening changes portfolio_capital, max_risk_amount or
\* max_position_amount.
C11_CapitalConstraints ==
    /\ [](/\ 100 * max_risk_amount = 2 * portfolio_capital
          /\ 100 * max_position_amount = 10 * portfolio_capital
          /\ \A k \in DOMAIN qualified_stocks :
                LET r == qualified_stocks[k]
                IN  /\ r.quantity \in Nat
                    /\ r.quantity > 0
                    /\ r.risk_amount = r.quantity * (r.entry_price - r.stop_loss)
                    /\ r.risk_amount <= max_risk_amount
                    /\ r.position_value = r.quantity * r.entry_price
                    /\ r.position_value <= max_position_amount)
    /\ [][/\ portfolio_capital' = portfolio_capital
          /\ max_risk_amount' = max_risk_amount
          /\ max_position_amount' = max_position_amount]_vars

\* a run under a capital of 10000 ended with a record whose quantity the
\* position limit set (8 shares, 960 of 1000) and a record whose quantity the
\* risk limit set (3 shares, 180 of 200)
C11_Witness ==
    /\ pc = "done"
    /\ portfolio_capital = 10000
    /\ Len(qualified_stocks) = 3
    /\ qualified_stocks[1].quantity = 8
    /\ qualified_stocks[1].position_value = 960
    /\ qualified_stocks[2].quantity = 3
    /\ qualified_stocks[2].risk_amount = 180

\* the last close, the 52-week low and the 52-week high of the price series
\* the provider has for a symbol
LastClose(symbol) ==
    LET rows == Response(symbol).history.rows IN rows[Len(rows)].Close
Low52(symbol) == SetMin(Values(Response(symbol).history.rows, "Low"))
High52(symbol) == SetMax(Values(Response(symbol).history.rows, "High"))

\* C12: every ScreeningResult has stop_loss = week52_low (the lowest Low),
\* target_price = week52_high (the highest High) and entry_price =
\* current_price = the last close, with stop_loss < entry_price <
\* (week52_high + week52_low) / 2 strictly, hence profit_potential >
\* risk_amount > 0 and a risk_reward_ratio above 1; and a screened symbol
\* whose last close is exactly the 52-week low or exactly the midpoint has no
\* record, although the first-half criterion is true for it.
C12_StopTargetEntry ==
    /\ \A k \in DOMAIN qualified_stocks :
          LET r == qualified_stocks[k]
          IN  /\ r.week52_low = Low52(r.symbol)
              /\ r.week52_high = High52(r.symbol)
              /\ r.stop_loss = r.week52_low
              /\ r.target_price = r.week52_high
              /\ r.entry_price = r.current_price
              /\ r.current_price = LastClose(r.symbol)
              /\ r.stop_loss < r.entry_price
              /\ 2 * r.entry_price < r.week52_high + r.week52_low
              /\ r.risk_amount > 0
              /\ r.profit_potential > r.risk_amount
              /\ r.risk_reward_ratio = <<r.profit_potential, r.risk_amount>>
    /\ \A k \in 1..(i - 1) :
          LET symbol == indian_stocks[k]
              price == LastClose(symbol)
          IN  (\/ price = Low52(symbol)
               \/ 2 * price = High52(symbol) + Low52(symbol)) =>
                  /\ check_first_half_criterion(price, High52(symbol),
                                                Low52(symbol))
                  /\ \A j \in DOMAIN qualified_stocks :
                        qualified_stocks[j].symbol # symbol

\* a run ended in which the watched symbol, whose last close of 120 is the
\* midpoint of its range of 100..140 and meets every criterion, has no
\* record, while the two other symbols, at 120 in a range of 100..200, have
\* one each
C12_Witness ==
    /\ pc = "done"
    /\ LastClose(Watched) = 120
    /\ Low52(Watched) = 100 /\ High52(Watched) = 140
    /\ AllCriteria(Response(Watched).history.rows)
    /\ Len(qualified_stocks) = 2
    /\ qualified_stocks[1].symbol = "TCS.NS"
    /\ qualified_stocks[2].symbol = "SBIN.NS"
    /\ qualified_stocks[1].stop_loss = 100
    /\ qualified_stocks[1].entry_price = 120
    /\ qualified_stocks[1].target_price = 200

=============================================================================
